---------------------------- MODULE Spec2Model ----------------------------
(***************************************************************************)
(* A model of the WebSub subscriber of src/server.ts: the Pending/Active   *)
(* sets, the subscribe/unsubscribe calls (discovery, Pending mutation,     *)
(* handshake POST) and the callback handler (verification GET, push POST). *)
(*                                                                         *)
(* Strings whose characters the code inspects (the X-Hub-Signature header, *)
(* hub.lease_seconds, hex digests, algorithm names) are sequences of       *)
(* one-character strings.  Strings the code only compares or copies (hub,  *)
(* topic, mode, challenge, secret) are TLA+ strings.  A URLSearchParams, a *)
(* Headers object or an options object is a function whose domain is the   *)
(* set of keys that are present.                                           *)
(***************************************************************************)
EXTENDS Integers, Sequences, FiniteSets, TLC

VARIABLES
  publicUrl,  \* WebSub.#publicUrl
  secret,     \* WebSub.#secret
  pending,    \* WebSub.#pending
  active,     \* WebSub.#active
  calls,      \* the subscribe()/unsubscribe() calls in progress, by slot
  awaiting,   \* the handler() calls suspended at an await, by slot
  request,    \* the request of the handler() call that just ended, if any
  entry,      \* #pending and #active before the turn in which that call ended
  response,   \* what that handler() call returned (or that it rejected)
  emitted,    \* the events that handler() call dispatched, in order
  inflight    \* the requests that have reached the server, by connection

vars ==
  <<publicUrl, secret, pending, active, calls, awaiting, request, entry, response,
    emitted, inflight>>

----------------------------------------------------------------------------
(* Bounds and input sets *)

MaxCalls == 1
MaxInflight == 2
MaxAwaiting == 1

Slots == 1..MaxCalls
Suspensions == 1..MaxAwaiting

Null == "<null>"

Urls == {"u1", "u2"}
Hubs == {"h1"}
SecretList == <<"s1", "s2">>
Secrets == {SecretList[i] : i \in DOMAIN SecretList}
\* What the constructor is given as secret: it takes any string, the empty
\* one included.
ProcessSecrets == {SecretList[1], ""}
BodyList == << <<104, 105>>, <<104, 111>> >>
Bodies == {BodyList[i] : i \in DOMAIN BodyList}

\* A function with the single key k, or the empty function (key absent).
Opt(k, vals) == {<<>>} \cup {[n \in {k} |-> v] : v \in vals}

Has(f, k) == k \in DOMAIN f

----------------------------------------------------------------------------
(* HTTP status codes used by the handler *)

OK == 200
Accepted == 202
NoContent == 204
BadRequest == 400
Forbidden == 403
NotFound == 404
MethodNotAllowed == 405

Respond(status, body) == [outcome |-> "response", status |-> status, body |-> body]
Reject(error) == [outcome |-> "rejected", status |-> 0, body |-> error]
\* the call is suspended at the await named at
Awaits(at) == [outcome |-> "awaiting", status |-> 0, body |-> at]
NoResponse == [outcome |-> "none", status |-> 0, body |-> Null]
NoRequest == [method |-> "NONE", query |-> <<>>, headers |-> <<>>]
NoEntry == [pending |-> {}, active |-> {}]
Conns == 1..MaxInflight
NoConn == [state |-> "none"]
NoCall == [at |-> "none"]
Suspended(req, at) == [at |-> at, req |-> req]

----------------------------------------------------------------------------
(* Character-level helpers *)

Digits == <<"0", "1", "2", "3", "4", "5", "6", "7", "8", "9">>
HexDigits == <<"0", "1", "2", "3", "4", "5", "6", "7", "8", "9",
               "a", "b", "c", "d", "e", "f">>

IsDigit(c) == \E i \in DOMAIN Digits : Digits[i] = c
DigitValue(c) == (CHOOSE i \in DOMAIN Digits : Digits[i] = c) - 1

\* String.prototype.split("="): every piece between separators.
RECURSIVE splitFrom(_, _, _)
splitFrom(s, i, cur) ==
  IF i > Len(s) THEN <<cur>>
  ELSE IF s[i] = "=" THEN <<cur>> \o splitFrom(s, i + 1, <<>>)
  ELSE splitFrom(s, i + 1, Append(cur, s[i]))

split(s) == splitFrom(s, 1, <<>>)

\* encodeHex: two lower-case hex digits per byte.
RECURSIVE encodeHex(_)
encodeHex(bytes) ==
  IF bytes = <<>> THEN <<>>
  ELSE <<HexDigits[(bytes[1] \div 16) + 1], HexDigits[(bytes[1] % 16) + 1]>>
       \o encodeHex(Tail(bytes))

\* Number.parseInt(s, 10): leading white space, an optional sign, then the
\* longest run of decimal digits; NaN when there is no digit.  The value is
\* the exact integer, as Number.parseInt's is up to 2^53; the leases tried
\* (Leases) have at most two digits.
NaN == "NaN"

\* StrWhiteSpaceChar of ECMAScript: WhiteSpace and LineTerminator.  A
\* character that has no escape here is written as its code point.
WhiteSpace ==
  {" ", "\t", "\n", "\r", "\f", "U+000B", "U+00A0", "U+FEFF", "U+2028", "U+2029",
   "U+1680", "U+2000", "U+2001", "U+2002", "U+2003", "U+2004", "U+2005",
   "U+2006", "U+2007", "U+2008", "U+2009", "U+200A", "U+202F", "U+205F",
   "U+3000"}

RECURSIVE skipBlanks(_)
skipBlanks(s) == IF s # <<>> /\ s[1] \in WhiteSpace THEN skipBlanks(Tail(s)) ELSE s

RECURSIVE digitRun(_, _)
digitRun(s, acc) ==
  IF s # <<>> /\ IsDigit(s[1])
  THEN digitRun(Tail(s), acc * 10 + DigitValue(s[1]))
  ELSE acc

parseInt(str) ==
  LET s == skipBlanks(str)
      neg == s # <<>> /\ s[1] = "-"
      t == IF s # <<>> /\ s[1] \in {"-", "+"} THEN Tail(s) ELSE s
  IN IF t = <<>> \/ ~IsDigit(t[1]) THEN NaN
     ELSE IF neg THEN 0 - digitRun(t, 0) ELSE digitRun(t, 0)

\* Number.prototype.toString() of an integer.
RECURSIVE natToString(_)
natToString(n) ==
  IF n < 10 THEN <<Digits[n + 1]>>
  ELSE natToString(n \div 10) \o <<Digits[(n % 10) + 1]>>

toString(n) == IF n < 0 THEN <<"-">> \o natToString(0 - n) ELSE natToString(n)

----------------------------------------------------------------------------
(* crypto: algorithm names, key import, HMAC *)

SHA_1 == <<"S", "H", "A", "-", "1">>
SHA_256 == <<"S", "H", "A", "-", "2", "5", "6">>
SHA_384 == <<"S", "H", "A", "-", "3", "8", "4">>
SHA_512 == <<"S", "H", "A", "-", "5", "1", "2">>
sha1 == <<"s", "h", "a", "1">>
sha256 == <<"s", "h", "a", "2", "5", "6">>
sha384 == <<"s", "h", "a", "3", "8", "4">>
sha512 == <<"s", "h", "a", "5", "1", "2">>

HMAC_ALGORITHM_U == <<SHA_1, SHA_256, SHA_384, SHA_512>>
HMAC_ALGORITHM_L == <<sha1, sha256, sha384, sha512>>

isHmacAlgorithmUpper(algorithm) ==
  \E i \in DOMAIN HMAC_ALGORITHM_U : HMAC_ALGORITHM_U[i] = algorithm

isHmacAlgorithmLower(algorithm) ==
  \E i \in DOMAIN HMAC_ALGORITHM_L : HMAC_ALGORITHM_L[i] = algorithm

\* The value standing for "throw new Error(invalid hmac algorithm)": no hash
\* name is the empty string.
InvalidHmacAlgorithm == <<>>

hmacAlgorithm(algorithm) ==
  IF isHmacAlgorithmUpper(algorithm) THEN algorithm
  ELSE IF isHmacAlgorithmLower(algorithm) THEN
    CASE algorithm = sha1 -> SHA_1
      [] algorithm = sha256 -> SHA_256
      [] algorithm = sha384 -> SHA_384
      [] algorithm = sha512 -> SHA_512
  ELSE InvalidHmacAlgorithm

\* importKey("raw", encode(secret), {name: "HMAC", hash}): the call throws
\* when hmacAlgorithm throws; the promise it returns rejects (DataError) for
\* a key of length zero, and otherwise resolves with the raw secret as a key
\* under the named hash.
cryptoKey(algorithm, sec) ==
  LET hash == hmacAlgorithm(algorithm)
  IN [threw |-> hash = InvalidHmacAlgorithm,
      rejected |-> hash # InvalidHmacAlgorithm /\ sec = "",
      hash |-> hash, raw |-> sec]

\* crypto.subtle.sign("HMAC", key, data) as an ideal MAC: an injective
\* function of (hash, raw key, data) on the keys and bodies of the model.
sign(key, data) ==
  LET h == CHOOSE i \in DOMAIN HMAC_ALGORITHM_U : HMAC_ALGORITHM_U[i] = key.hash
      k == CHOOSE i \in DOMAIN SecretList : SecretList[i] = key.raw
      d == CHOOSE i \in DOMAIN BodyList : BodyList[i] = data
  IN <<171 + 4 * (h - 1) + (k - 1), 202 + (d - 1)>>

----------------------------------------------------------------------------
(* handler: the verification GET *)

\* !value for a query parameter that is a plain string.
Falsy(q, k) == ~Has(q, k) \/ q[k] = ""

\* !lease for hub.lease_seconds (a character sequence).
FalsyLease(q) == ~Has(q, "hub.lease_seconds") \/ q["hub.lease_seconds"] = <<>>

Result(resp, evs, pend, act) ==
  [response |-> resp, emitted |-> evs, pending |-> pend, active |-> act]

DeniedEvent(hub, topic, pend, act) ==
  [type |-> "denied", hub |-> hub, topic |-> topic,
   atPending |-> pend, atActive |-> act]

SubscribeEvent(hub, topic, lease, pend, act) ==
  [type |-> "subscribe", hub |-> hub, topic |-> topic, lease |-> lease,
   atPending |-> pend, atActive |-> act]

UnsubscribeEvent(hub, topic, pend, act) ==
  [type |-> "unsubscribe", hub |-> hub, topic |-> topic,
   atPending |-> pend, atActive |-> act]

FeedEvent(hub, topic, body, pend, act) ==
  [type |-> "feed", hub |-> hub, topic |-> topic, body |-> body,
   atPending |-> pend, atActive |-> act]

\* this.dispatchTypedEvent(type, event): the listeners run synchronously
\* inside the call, which the handler makes before the return statement that
\* follows it; returned records whether the handler had returned its response
\* when the listeners ran.
dispatchTypedEvent(event) == event @@ [returned |-> FALSE]

\* Mutant: hub.challenge is not required.
missingVerificationParam_lenient(q) ==
  Falsy(q, "hub") \/ Falsy(q, "hub.topic") \/ Falsy(q, "hub.mode")

\* if (!hub || !topic || !mode || !challenge)
missingVerificationParam(q) ==
  Falsy(q, "hub") \/ Falsy(q, "hub.topic") \/ Falsy(q, "hub.mode")
    \/ Falsy(q, "hub.challenge")

\* Mutant: the Pending entry is not consumed.
consumePending_kept(pend, topic) == pend

\* this.#pending.delete(topic) in the handler
consumePending(pend, topic) == pend \ {topic}

\* Mutant: a verified subscription is not recorded as Active.
activeAfter_never(mode, act, topic) == act \ {topic}

\* this.#active.add(topic) / this.#active.delete(topic)
activeAfter(mode, act, topic) ==
  IF mode = "subscribe" THEN act \cup {topic} ELSE act \ {topic}

\* Mutant: the Pending set is not consulted.
isPending_any(pend, topic) == TRUE

\* this.#pending.has(topic)
isPending(pend, topic) == topic \in pend

\* Mutant: a denial also drops the topic from Active.
deniedVerification_dropsActive(q, pend, act) ==
  Result(Respond(OK, q["hub.challenge"]),
         <<dispatchTypedEvent(DeniedEvent(q["hub"], q["hub.topic"], pend, act \ {q["hub.topic"]}))>>,
         pend, act \ {q["hub.topic"]})

\* case "denied"
deniedVerification(q, pend, act) ==
  Result(Respond(OK, q["hub.challenge"]),
         <<dispatchTypedEvent(DeniedEvent(q["hub"], q["hub.topic"], pend, act))>>, pend, act)

\* Mutant: a missing lease defaults to 0.
subscribeVerification_lenient(q, pend, act) ==
  LET act2 == activeAfter("subscribe", act, q["hub.topic"])
      lease == IF FalsyLease(q) THEN 0 ELSE parseInt(q["hub.lease_seconds"])
  IN Result(Respond(OK, q["hub.challenge"]),
            <<dispatchTypedEvent(SubscribeEvent(q["hub"], q["hub.topic"], lease,
                                                pend, act2))>>,
            pend, act2)

\* case "subscribe" / "unsubscribe" with mode === "subscribe"
subscribeVerification(q, pend, act) ==
  IF FalsyLease(q)
  THEN Result(Reject("lease not specified"), <<>>, pend, act)
  ELSE LET act2 == activeAfter("subscribe", act, q["hub.topic"])
           lease == parseInt(q["hub.lease_seconds"])
       IN Result(Respond(OK, q["hub.challenge"]),
                 <<dispatchTypedEvent(SubscribeEvent(q["hub"], q["hub.topic"], lease, pend, act2))>>,
                 pend, act2)

\* case "subscribe" / "unsubscribe" with mode === "unsubscribe"
unsubscribeVerification(q, pend, act) ==
  LET act2 == activeAfter("unsubscribe", act, q["hub.topic"])
  IN Result(Respond(OK, q["hub.challenge"]),
            <<dispatchTypedEvent(UnsubscribeEvent(q["hub"], q["hub.topic"], pend, act2))>>,
            pend, act2)

\* Mutant: an unknown hub.mode gives the Pending entry back.
verificationMode_restores(q, pend, act) ==
  CASE q["hub.mode"] = "denied" -> deniedVerification(q, pend, act)
    [] q["hub.mode"] = "subscribe" -> subscribeVerification(q, pend, act)
    [] q["hub.mode"] = "unsubscribe" -> unsubscribeVerification(q, pend, act)
    [] OTHER -> Result(Respond(Forbidden, Null), <<>>, pend \cup {q["hub.topic"]}, act)

\* the switch (mode) of the GET branch, entered with the topic consumed
verificationMode(q, pend, act) ==
  CASE q["hub.mode"] = "denied" -> deniedVerification(q, pend, act)
    [] q["hub.mode"] = "subscribe" -> subscribeVerification(q, pend, act)
    [] q["hub.mode"] = "unsubscribe" -> unsubscribeVerification(q, pend, act)
    [] OTHER -> Result(Respond(Forbidden, Null), <<>>, pend, act)

\* Mutant: a verification is accepted whether or not its topic is Pending.
handlerGET_unsolicited(req, pend, act) ==
  LET q == req.query
  IN IF missingVerificationParam(q)
     THEN Result(Respond(BadRequest, Null), <<>>, pend, act)
     ELSE verificationMode(q, consumePending(pend, q["hub.topic"]), act)

handlerGET(req, pend, act) ==
  LET q == req.query
  IN IF missingVerificationParam(q)
     THEN Result(Respond(BadRequest, Null), <<>>, pend, act)
     ELSE IF ~isPending(pend, q["hub.topic"])
     THEN Result(Respond(NotFound, Null), <<>>, pend, act)
     ELSE verificationMode(q, consumePending(pend, q["hub.topic"]), act)

----------------------------------------------------------------------------
(* handler: the push POST *)

\* req.headers.get("x-hub-signature") is null or empty
missingSignature(req) ==
  ~Has(req.headers, "x-hub-signature") \/ req.headers["x-hub-signature"] = <<>>

\* const [algorithm, signature] = _sig.split("="); an absent half is <<>>,
\* which !algorithm || !signature treats like an empty one.
signatureAlgorithm(sig) == split(sig)[1]
\* Mutant: an absent or empty digest half is replaced by a placeholder.
signatureDigest_lenient(sig) ==
  IF Len(split(sig)) >= 2 /\ split(sig)[2] # <<>> THEN split(sig)[2] ELSE <<"0">>

signatureDigest(sig) == IF Len(split(sig)) >= 2 THEN split(sig)[2] ELSE <<>>

\* the key the push verifier signs the body with
verificationKey(algorithm, sec, topic) == cryptoKey(algorithm, sec)

\* const valid = signature === encodeHex(signed)
validSignature(signature, signed) == signature = encodeHex(signed)

\* The POST branch from the call to its first await, req.arrayBuffer(): the
\* checks of the request, each with its early return.
handlerPOST(req, pend, act, sec) ==
  LET q == req.query
  IN IF ~Has(req, "body")
     THEN Result(Respond(BadRequest, Null), <<>>, pend, act)
     ELSE IF Falsy(q, "hub") \/ Falsy(q, "topic")
     THEN Result(Respond(BadRequest, Null), <<>>, pend, act)
     ELSE IF missingSignature(req)
     THEN Result(Respond(BadRequest, Null), <<>>, pend, act)
     ELSE
       LET sig == req.headers["x-hub-signature"]
           algorithm == signatureAlgorithm(sig)
           signature == signatureDigest(sig)
       IN IF algorithm = <<>> \/ signature = <<>>
          THEN Result(Respond(Forbidden, Null), <<>>, pend, act)
          ELSE Result(Awaits("arrayBuffer"), <<>>, pend, act)

\* The POST branch from the await it was suspended at (at) to its next
\* await, its return or its rejection; pend and act are #pending and #active
\* as they are when the call resumes.
\*   arrayBuffer: the body is read; cryptoKey(algorithm, secret) is called
\*                and throws, or its promise is awaited;
\*   importKey:   the key promise has settled: it rejected, or sign() is
\*                called and awaited;
\*   sign:        the digest is compared, and the feed event dispatched.
handlerPOSTResumes(req, at, pend, act, sec) ==
  LET q == req.query
      sig == req.headers["x-hub-signature"]
      algorithm == signatureAlgorithm(sig)
      signature == signatureDigest(sig)
      key == verificationKey(algorithm, sec, q["topic"])
  IN CASE at = "arrayBuffer" ->
            IF key.threw
            THEN Result(Reject("invalid hmac algorithm"), <<>>, pend, act)
            ELSE Result(Awaits("importKey"), <<>>, pend, act)
       [] at = "importKey" ->
            IF key.rejected
            THEN Result(Reject("Zero-length key is not supported"), <<>>, pend, act)
            ELSE Result(Awaits("sign"), <<>>, pend, act)
       [] at = "sign" ->
            IF ~validSignature(signature, sign(key, req.body))
            THEN Result(Respond(Accepted, Null), <<>>, pend, act)
            ELSE Result(Respond(NoContent, Null),
                        <<dispatchTypedEvent(FeedEvent(q["hub"], q["topic"], req.body, pend, act))>>,
                        pend, act)

\* Mutant: a push is verified only for an Active topic.
handler_activeOnly(req, pend, act, sec) ==
  IF req.method = "GET" THEN handlerGET(req, pend, act)
  ELSE IF req.method = "POST" THEN
    IF Has(req.query, "topic") /\ req.query["topic"] \notin act
    THEN Result(Respond(Accepted, Null), <<>>, pend, act)
    ELSE handlerPOST(req, pend, act, sec)
  ELSE Result(Respond(MethodNotAllowed, Null), <<>>, pend, act)

\* Mutant: every method but POST is handled as a verification GET.
handler_getByDefault(req, pend, act, sec) ==
  IF req.method = "POST" THEN handlerPOST(req, pend, act, sec)
  ELSE handlerGET(req, pend, act)

\* handler(req) from the call to its return, its throw or its first await
handler(req, pend, act, sec) ==
  IF req.method = "GET" THEN handlerGET(req, pend, act)
  ELSE IF req.method = "POST" THEN handlerPOST(req, pend, act, sec)
  ELSE Result(Respond(MethodNotAllowed, Null), <<>>, pend, act)

----------------------------------------------------------------------------
(* subscribe / unsubscribe: discovery and the handshake POST *)

\* request, entry, response and emitted record the handler() call that just
\* ended, and the result of an idle call slot records how the last
\* subscribe/unsubscribe call ended; no operation reads them.  Every other
\* step waits until the record is taken (Quiet).  A call that is suspended
\* at an await is not on record: it sits in awaiting, and any other call or
\* continuation may run before it resumes.

\* A parsed Link header is a sequence of [uri, rel] entries.
Link(uri, rel) == [uri |-> uri, rel |-> rel]

RECURSIVE getByRel(_, _)
getByRel(link, rel) ==
  IF link = <<>> THEN <<>>
  ELSE IF link[1].rel = rel THEN <<link[1]>> \o getByRel(Tail(link), rel)
  ELSE getByRel(Tail(link), rel)

hasParameterRel(link, rel) == \E i \in DOMAIN link : link[i].rel = rel

Discovered(hub, topic) == [threw |-> FALSE, hub |-> hub, topic |-> topic]
DiscoverThrows(error) == [threw |-> TRUE, error |-> error]

\* Mutant: the <link> elements of the body are preferred to the Link header.
discover_bodyFirst(url, resp) ==
  IF resp.kind = "error" THEN DiscoverThrows("fetch failed")
  ELSE IF ~resp.ok THEN DiscoverThrows("failed to discover")
  ELSE IF hasParameterRel(resp.body, "hub")
  THEN LET self == getByRel(resp.body, "self")
       IN Discovered(getByRel(resp.body, "hub")[1].uri,
                     IF self # <<>> THEN self[1].uri ELSE url)
  ELSE IF Has(resp.headers, "link") /\ resp.headers["link"] # <<>>
  THEN LET link == resp.headers["link"]
       IN IF ~hasParameterRel(link, "hub")
          THEN DiscoverThrows("invalid link header")
          ELSE LET hub == getByRel(link, "hub")[1].uri
                   self == getByRel(link, "self")
                   topic == IF self # <<>> THEN self[1].uri ELSE url
               IN Discovered(hub, topic)
  ELSE DiscoverThrows("not implemented")

\* Mutant: a non-success discovery response is still searched for a hub.
discover_anyStatus(url, resp) ==
  IF resp.kind = "error" THEN DiscoverThrows("fetch failed")
  ELSE IF Has(resp.headers, "link") /\ resp.headers["link"] # <<>>
  THEN LET link == resp.headers["link"]
       IN IF ~hasParameterRel(link, "hub")
          THEN DiscoverThrows("invalid link header")
          ELSE LET hub == getByRel(link, "hub")[1].uri
                   self == getByRel(link, "self")
                   topic == IF self # <<>> THEN self[1].uri ELSE url
               IN Discovered(hub, topic)
  ELSE DiscoverThrows("not implemented")

\* #discover(url), given what fetch(url) settled with
discover(url, resp) ==
  IF resp.kind = "error" THEN DiscoverThrows("fetch failed")
  ELSE IF ~resp.ok THEN DiscoverThrows("failed to discover")
  ELSE IF Has(resp.headers, "link") /\ resp.headers["link"] # <<>>
  THEN LET link == resp.headers["link"]
       IN IF ~hasParameterRel(link, "hub")
          THEN DiscoverThrows("invalid link header")
          ELSE LET hub == getByRel(link, "hub")[1].uri
                   self == getByRel(link, "self")
                   topic == IF self # <<>> THEN self[1].uri ELSE url
               IN Discovered(hub, topic)
  ELSE DiscoverThrows("not implemented")

\* Mutant: force is ignored, the discovered topic is always used.
resolveTopic_discovered(url, options, discoveredTopic) == discoveredTopic

\* const topic = options.force ? url : _topic
resolveTopic(url, options, discoveredTopic) ==
  IF Has(options, "force") /\ options["force"] THEN url ELSE discoveredTopic

\* the hub.secret field of the handshake form
handshakeSecret(sec, topic) == sec

\* Mutant: every subscribe handshake carries hub.lease_seconds, empty when
\* no lease was specified.
renameme_alwaysLease(mode, hub, topic, options, pub, sec) ==
  LET callback == [base |-> pub, query |-> [hub |-> hub, topic |-> topic]]
      body == [k \in {"hub.verify", "hub.mode", "hub.topic", "hub.secret",
                      "hub.callback"} |->
                 CASE k = "hub.verify" -> "async"
                   [] k = "hub.mode" -> mode
                   [] k = "hub.topic" -> topic
                   [] k = "hub.secret" -> handshakeSecret(sec, topic)
                   [] k = "hub.callback" -> callback]
      lease == IF mode = "subscribe"
               THEN [k \in {"hub.lease_seconds"} |->
                       IF Has(options, "lease") THEN toString(options["lease"])
                       ELSE <<>>]
               ELSE <<>>
  IN [url |-> hub, method |-> "POST", body |-> body @@ lease,
      contentType |-> "application/x-www-form-urlencoded"]

\* #renameme: the POST it passes to fetch(hub, ...)
renameme(mode, hub, topic, options, pub, sec) ==
  LET callback == [base |-> pub, query |-> [hub |-> hub, topic |-> topic]]
      body == [k \in {"hub.verify", "hub.mode", "hub.topic", "hub.secret",
                      "hub.callback"} |->
                 CASE k = "hub.verify" -> "async"
                   [] k = "hub.mode" -> mode
                   [] k = "hub.topic" -> topic
                   [] k = "hub.secret" -> handshakeSecret(sec, topic)
                   [] k = "hub.callback" -> callback]
      lease == IF mode = "subscribe" /\ Has(options, "lease")
               THEN [k \in {"hub.lease_seconds"} |-> toString(options["lease"])]
               ELSE <<>>
  IN [url |-> hub, method |-> "POST", body |-> body @@ lease,
      contentType |-> "application/x-www-form-urlencoded"]

\* Mutant: subscribe sends the handshake without marking the topic Pending.
pendingAfterSubscribe_unmarked(pend, topic) == pend

\* this.#pending.add(topic) in subscribe
pendingAfterSubscribe(pend, topic) == pend \cup {topic}

\* this.#pending.delete(topic) in unsubscribe
pendingAfterUnsubscribe(pend, topic) == pend \ {topic}

Idle(result) == [pc |-> "idle", result |-> result]
\* no handler() call is running and no finished call's outcome is on record
Quiet ==
  /\ request = NoRequest
  /\ \A i \in Slots : calls[i].pc = "idle" => calls[i].result = Null
\* the call's promise rejected with error
Rejected(error) == [pc |-> "idle", result |-> "rejected", error |-> error]
Discovering(mode, url, options) ==
  [pc |-> "discover", mode |-> mode, url |-> url, options |-> options]
Posting(mode, options, post) ==
  [pc |-> "post", mode |-> mode, options |-> options, post |-> post]

SubscribeOptions ==
  {l @@ f : l \in Opt("lease", {60}), f \in Opt("force", {TRUE})}
UnsubscribeOptions == Opt("force", {TRUE})

LinkHeaders ==
  {<<Link("u1", "self")>>, <<Link("h1", "hub")>>}
    \cup {<<Link("h1", "hub"), Link(u, "self")>> : u \in Urls}

\* A document whose <link> elements name another hub and topic.
HtmlBody == <<Link("h2", "hub"), Link("u2", "self")>>

\* What fetch(url) settles with: a network error, or a response with its
\* parsed Link header, its content type and the <link> elements of its body.
DiscoveryResponses ==
  {[kind |-> "error"]}
    \cup {[kind |-> "response", ok |-> FALSE, headers |-> h, body |-> <<>>] :
            h \in Opt("link", {<<Link("h1", "hub")>>})}
    \cup {[kind |-> "response", ok |-> TRUE, headers |-> h @@ c, body |-> b] :
            h \in Opt("link", LinkHeaders \cup {<<>>}),
            c \in Opt("content-type", {"text/html"}),
            b \in {<<>>, HtmlBody}}

HubReplies ==
  {[kind |-> "error"]} \cup {[kind |-> "response", status |-> st] : st \in {202, 400}}

\* subscribe(url, options) up to its first await: the discovery fetch is sent
Subscribe(i, url, options) ==
  /\ Quiet
  /\ calls[i].pc = "idle"
  /\ calls' = [calls EXCEPT ![i] = Discovering("subscribe", url, options)]
  /\ UNCHANGED <<publicUrl, secret, awaiting, pending, active, request, entry, response, emitted, inflight>>

\* unsubscribe(url, options) up to its first await
Unsubscribe(i, url, options) ==
  /\ Quiet
  /\ calls[i].pc = "idle"
  /\ calls' = [calls EXCEPT ![i] = Discovering("unsubscribe", url, options)]
  /\ UNCHANGED <<publicUrl, secret, awaiting, pending, active, request, entry, response, emitted, inflight>>

\* subscribe resumes when the discovery fetch settles: it rejects, or marks
\* the topic Pending and sends the handshake POST
SubscribeDiscovered(i, resp) ==
  /\ Quiet
  /\ calls[i].pc = "discover"
  /\ calls[i].mode = "subscribe"
  /\ LET d == discover(calls[i].url, resp)
     IN IF d.threw
        THEN /\ calls' = [calls EXCEPT ![i] = Rejected(d.error)]
             /\ UNCHANGED pending
        ELSE LET topic == resolveTopic(calls[i].url, calls[i].options, d.topic)
             IN /\ pending' = pendingAfterSubscribe(pending, topic)
                /\ calls' = [calls EXCEPT ![i] =
                     Posting("subscribe", calls[i].options,
                             renameme("subscribe", d.hub, topic, calls[i].options,
                                      publicUrl, secret))]
  /\ UNCHANGED <<publicUrl, secret, awaiting, active, request, entry, response, emitted, inflight>>

\* Mutant: unsubscribe sends its handshake only for a topic it knows.
UnsubscribeDiscovered_knownOnly(i, resp) ==
  /\ Quiet
  /\ calls[i].pc = "discover"
  /\ calls[i].mode = "unsubscribe"
  /\ LET d == discover(calls[i].url, resp)
     IN IF d.threw
        THEN /\ calls' = [calls EXCEPT ![i] = Rejected(d.error)]
             /\ UNCHANGED pending
        ELSE LET topic == resolveTopic(calls[i].url, calls[i].options, d.topic)
             IN IF topic \notin pending \cup active
                THEN /\ calls' = [calls EXCEPT ![i] = Idle("resolved")]
                     /\ UNCHANGED pending
                ELSE /\ pending' = pendingAfterUnsubscribe(pending, topic)
                     /\ calls' = [calls EXCEPT ![i] =
                          Posting("unsubscribe", calls[i].options,
                                  renameme("unsubscribe", d.hub, topic, calls[i].options,
                                           publicUrl, secret))]
  /\ UNCHANGED <<publicUrl, secret, awaiting, active, request, entry, response, emitted, inflight>>

\* unsubscribe resumes when the discovery fetch settles: it rejects, or
\* deletes the topic from Pending and sends the handshake POST
UnsubscribeDiscovered(i, resp) ==
  /\ Quiet
  /\ calls[i].pc = "discover"
  /\ calls[i].mode = "unsubscribe"
  /\ LET d == discover(calls[i].url, resp)
     IN IF d.threw
        THEN /\ calls' = [calls EXCEPT ![i] = Rejected(d.error)]
             /\ UNCHANGED pending
        ELSE LET topic == resolveTopic(calls[i].url, calls[i].options, d.topic)
             IN /\ pending' = pendingAfterUnsubscribe(pending, topic)
                /\ calls' = [calls EXCEPT ![i] =
                     Posting("unsubscribe", calls[i].options,
                             renameme("unsubscribe", d.hub, topic, calls[i].options,
                                      publicUrl, secret))]
  /\ UNCHANGED <<publicUrl, secret, awaiting, active, request, entry, response, emitted, inflight>>

\* Mutant: a handshake the hub did not accept rolls the Pending entry back.
HandshakeSettled_rollback(i, reply) ==
  /\ Quiet
  /\ calls[i].pc = "post"
  /\ calls' = [calls EXCEPT ![i] =
       IF reply.kind = "error" THEN Rejected("fetch failed") ELSE Idle("resolved")]
  /\ pending' = IF reply.kind = "error" \/ reply.status # 202
                THEN pending \ {calls[i].post.body["hub.topic"]}
                ELSE pending
  /\ UNCHANGED <<publicUrl, secret, awaiting, active, request, entry, response, emitted, inflight>>

\* await fetch(hub, ...) settles: whatever the status, the call resolves;
\* a network failure rejects it
HandshakeSettled(i, reply) ==
  /\ Quiet
  /\ calls[i].pc = "post"
  /\ calls' = [calls EXCEPT ![i] =
       IF reply.kind = "error" THEN Rejected("fetch failed") ELSE Idle("resolved")]
  /\ UNCHANGED <<publicUrl, secret, awaiting, pending, active, request, entry, response, emitted, inflight>>

\* the caller has taken the outcome of its subscribe/unsubscribe call
CallReturns(i) ==
  /\ request = NoRequest
  /\ calls[i].pc = "idle"
  /\ calls[i].result # Null
  /\ calls' = [calls EXCEPT ![i] = Idle(Null)]
  /\ UNCHANGED <<publicUrl, secret, awaiting, pending, active, request, entry, response, emitted, inflight>>

----------------------------------------------------------------------------
(* Inbound requests *)

Modes == {"denied", "subscribe", "unsubscribe", "publish"}
Challenges == {"c1"}
Leases == {<<"6", "0">>, <<"\t", "6", "0">>, <<"7", "x">>, <<>>}

Request(method, query, headers) ==
  [method |-> method, query |-> query, headers |-> headers]

GetRequests ==
  {Request("GET", h @@ t @@ m @@ c @@ l, <<>>) :
     h \in Opt("hub", Hubs), t \in Opt("hub.topic", Urls),
     m \in Opt("hub.mode", Modes), c \in Opt("hub.challenge", Challenges \cup {""}),
     l \in Opt("hub.lease_seconds", Leases)}

\* The verification GETs tried: hub.lease_seconds accompanies
\* hub.mode=subscribe only; at most one of hub, hub.topic, hub.mode and
\* hub.challenge is absent or empty, or the query is empty; a request with
\* one of them missing carries the lease "60" or none.
VerificationRequests ==
  {r \in GetRequests :
     LET missing == {k \in {"hub", "hub.topic", "hub.mode", "hub.challenge"} :
                       ~Has(r.query, k) \/ r.query[k] = ""}
     IN /\ Has(r.query, "hub.lease_seconds") =>
             (Has(r.query, "hub.mode") /\ r.query["hub.mode"] = "subscribe")
        /\ Cardinality(missing) <= 1 \/ DOMAIN r.query = {}
        /\ (missing # {} /\ Has(r.query, "hub.lease_seconds")) =>
             r.query["hub.lease_seconds"] = <<"6", "0">>}

upperChar(c) ==
  CASE c = "a" -> "A" [] c = "b" -> "B" [] c = "c" -> "C"
    [] c = "d" -> "D" [] c = "e" -> "E" [] c = "f" -> "F"
    [] OTHER -> c

toUpperCase(s) == [i \in DOMAIN s |-> upperChar(s[i])]

\* What a hub sends as X-Hub-Signature: a spelling of the algorithm, "=",
\* and the hex HMAC of the body under the key it holds.
HubSignature(name, hash, key, body, upper) ==
  LET hex == encodeHex(sign([hash |-> hash, raw |-> key], body))
  IN name \o <<"=">> \o (IF upper THEN toUpperCase(hex) ELSE hex)

\* name: what the header declares; hash: what the digest was made with.
AlgorithmSpellings ==
  {[name |-> sha1, hash |-> SHA_1],
   [name |-> SHA_256, hash |-> SHA_256],
   [name |-> SHA_1, hash |-> SHA_256],
   [name |-> <<"S", "H", "A", "2", "5", "6">>, hash |-> SHA_256]}

MalformedSignatures ==
  {<<>>, sha1, sha1 \o <<"=">>, <<"=", "a", "b">>,
   <<"m", "d", "5", "=", "a", "b">>}

SignatureHeaders ==
  {HubSignature(a.name, a.hash, k, b, up) :
     a \in AlgorithmSpellings, k \in Secrets, b \in Bodies, up \in BOOLEAN}
  \cup MalformedSignatures

PushRequest(query, headers, body) ==
  [method |-> "POST", query |-> query, headers |-> headers] @@ body

PushRequests ==
  {PushRequest(h @@ t, s, b) :
     h \in Opt("hub", Hubs), t \in Opt("topic", Urls),
     s \in Opt("x-hub-signature", SignatureHeaders), b \in Opt("body", Bodies)}

\* The pushes tried while subscriptions come and go: for the first topic,
\* signed over the first body with either secret, under sha1 or an unknown
\* algorithm.
CorePushRequests ==
  {r \in PushRequests :
     /\ Has(r.query, "hub") /\ Has(r.query, "topic") /\ r.query["topic"] = "u1"
     /\ Has(r, "body") => r.body = BodyList[1]
     /\ Has(r.headers, "x-hub-signature")
     /\ r.headers["x-hub-signature"] \in
          {HubSignature(sha1, SHA_1, k, BodyList[1], FALSE) : k \in Secrets}
            \cup {<<"m", "d", "5", "=", "a", "b">>}}

\* Requests of other methods: a bare one, one that looks like a subscribe
\* verification and one that looks like a correctly signed push.
OtherRequests ==
  {Request("PUT", <<>>, <<>>),
   Request("PUT",
           [k \in {"hub", "hub.topic", "hub.mode", "hub.challenge",
                   "hub.lease_seconds"} |->
              CASE k = "hub" -> "h1"
                [] k = "hub.topic" -> "u1"
                [] k = "hub.mode" -> "subscribe"
                [] k = "hub.challenge" -> "c1"
                [] k = "hub.lease_seconds" -> <<"6", "0">>],
           <<>>),
   [method |-> "DELETE",
    query |-> [hub |-> "h1", topic |-> "u1"],
    headers |-> [k \in {"x-hub-signature"} |->
                   HubSignature(sha1, SHA_1, SecretList[1], BodyList[1], FALSE)],
    body |-> BodyList[1]]}

\* The suspension slot a call takes: the first free one.
FreeSuspension == CHOOSE p \in Suspensions :
  awaiting[p] = NoCall /\ \A o \in Suspensions : awaiting[o] = NoCall => p <= o

\* a handler(req) call has ended with result r and goes on record
Ends(req, r) ==
  /\ request' = req
  /\ entry' = [pending |-> pending, active |-> active]
  /\ response' = r.response
  /\ emitted' = r.emitted

\* handler(req) is called and runs to its return, its throw or its first
\* await
Handle(req) ==
  LET r == handler(req, pending, active, secret)
  IN /\ Quiet
     /\ pending' = r.pending
     /\ active' = r.active
     /\ IF r.response.outcome = "awaiting"
        THEN /\ \E p \in Suspensions : awaiting[p] = NoCall
             /\ awaiting' = [awaiting EXCEPT ![FreeSuspension] =
                                Suspended(req, r.response.body)]
             /\ UNCHANGED <<request, entry, response, emitted>>
        ELSE /\ Ends(req, r)
             /\ UNCHANGED awaiting
     /\ UNCHANGED <<publicUrl, secret, calls, inflight>>

\* the await of the suspended call p settles and the call runs on, to its
\* next await, its return or its rejection
HandlerResumes(p) ==
  /\ Quiet
  /\ awaiting[p] # NoCall
  /\ LET req == awaiting[p].req
         r == handlerPOSTResumes(req, awaiting[p].at, pending, active, secret)
     IN /\ pending' = r.pending
        /\ active' = r.active
        /\ IF r.response.outcome = "awaiting"
           THEN /\ awaiting' = [awaiting EXCEPT ![p] = Suspended(req, r.response.body)]
                /\ UNCHANGED <<request, entry, response, emitted>>
           ELSE /\ awaiting' = [awaiting EXCEPT ![p] = NoCall]
                /\ Ends(req, r)
  /\ UNCHANGED <<publicUrl, secret, calls, inflight>>

Verification == \E req \in VerificationRequests : Handle(req)
Push == \E req \in CorePushRequests : Handle(req)
OtherMethod == \E req \in OtherRequests : Handle(req)
AnyPush == \E req \in PushRequests : Handle(req)
Resumes == \E p \in Suspensions : HandlerResumes(p)

\* the response (or the rejection) has gone back to the server
HandlerReturns ==
  /\ request # NoRequest
  /\ request' = NoRequest
  /\ entry' = NoEntry
  /\ response' = NoResponse
  /\ emitted' = <<>>
  /\ UNCHANGED <<publicUrl, secret, awaiting, pending, active, calls, inflight>>

----------------------------------------------------------------------------
(* Requests in flight *)

\* Several requests can have reached the server before handler() runs for
\* any of them.  A handler() call then runs its GET branch in one turn of
\* the event loop (server.ts:128-176 has no await); in its POST branch it is
\* suspended at each await (server.ts:198-200), and the calls for the other
\* connections run in between.

Arrived(req, atArrival) ==
  [state |-> "arrived", req |-> req, atArrival |-> atArrival]

\* the call for the request is suspended at the await named at
Serving(req, atArrival, at) ==
  [state |-> "awaiting", req |-> req, atArrival |-> atArrival, at |-> at]

Answered(req, atArrival, resp, evs) ==
  [state |-> "answered", req |-> req, atArrival |-> atArrival,
   response |-> resp, emitted |-> evs]

\* what a connection holds after a turn of its call that had result r
Served(conn, r) ==
  IF r.response.outcome = "awaiting"
  THEN Serving(conn.req, conn.atArrival, r.response.body)
  ELSE Answered(conn.req, conn.atArrival, r.response, r.emitted)

\* The requests tried in flight: complete verifications (subscribe with a
\* lease, denied), a subscribe verification without lease, a push signed
\* with the first secret and a push declaring an unknown algorithm.
InflightRequests ==
  {r \in VerificationRequests :
     /\ \A k \in {"hub", "hub.topic", "hub.mode", "hub.challenge"} :
          Has(r.query, k) /\ r.query[k] # ""
     /\ r.query["hub.mode"] \in {"subscribe", "denied"}
     /\ Has(r.query, "hub.lease_seconds") =>
          r.query["hub.lease_seconds"] = <<"6", "0">>}
  \cup {r \in CorePushRequests :
          /\ Has(r, "body")
          /\ r.query["topic"] = "u1"
          /\ r.headers["x-hub-signature"] \in
               {<<"m", "d", "5", "=", "a", "b">>,
                HubSignature(sha1, SHA_1, SecretList[1], BodyList[1], FALSE)}}

\* a request reaches the server on connection c
Receive(c, req) ==
  /\ inflight[c].state = "none"
  /\ inflight' = [inflight EXCEPT ![c] = Arrived(req, pending)]
  /\ UNCHANGED <<publicUrl, secret, awaiting, pending, active, calls, request, entry,
                 response, emitted>>

\* Mutant: the Pending test uses the set as it was when the request arrived.
Serve_testAtArrival(c) ==
  /\ inflight[c].state = "arrived"
  /\ LET r == handler(inflight[c].req, inflight[c].atArrival, active, secret)
     IN /\ pending' = pending \ (inflight[c].atArrival \ r.pending)
        /\ active' = r.active
        /\ inflight' = [inflight EXCEPT ![c] = Served(inflight[c], r)]
  /\ UNCHANGED <<publicUrl, secret, awaiting, calls, request, entry, response, emitted>>

\* handler() is called with the request of connection c and runs to its
\* return, its throw or its first await
Serve(c) ==
  /\ inflight[c].state = "arrived"
  /\ LET r == handler(inflight[c].req, pending, active, secret)
     IN /\ pending' = r.pending
        /\ active' = r.active
        /\ inflight' = [inflight EXCEPT ![c] = Served(inflight[c], r)]
  /\ UNCHANGED <<publicUrl, secret, awaiting, calls, request, entry, response, emitted>>

\* the await of the call for connection c settles and the call runs on, to
\* its next await, its return or its rejection
ServeResumes(c) ==
  /\ inflight[c].state = "awaiting"
  /\ LET r == handlerPOSTResumes(inflight[c].req, inflight[c].at, pending, active, secret)
     IN /\ pending' = r.pending
        /\ active' = r.active
        /\ inflight' = [inflight EXCEPT ![c] = Served(inflight[c], r)]
  /\ UNCHANGED <<publicUrl, secret, awaiting, calls, request, entry, response, emitted>>

----------------------------------------------------------------------------
(* Specifications *)

Constructed ==
  /\ publicUrl = "https://subscriber.example/"
  /\ pending = {}
  /\ active = {}
  /\ calls = [i \in Slots |-> Idle(Null)]
  /\ awaiting = [p \in Suspensions |-> NoCall]
  /\ request = NoRequest
  /\ entry = NoEntry
  /\ response = NoResponse
  /\ emitted = <<>>
  /\ inflight = [c \in Conns |-> NoConn]

Init == Constructed /\ secret \in ProcessSecrets

CallSubscribe == \E i \in Slots, url \in Urls, o \in SubscribeOptions : Subscribe(i, url, o)
CallUnsubscribe == \E i \in Slots, url \in Urls, o \in UnsubscribeOptions : Unsubscribe(i, url, o)
SubscribeResumes == \E i \in Slots, resp \in DiscoveryResponses : SubscribeDiscovered(i, resp)
UnsubscribeResumes == \E i \in Slots, resp \in DiscoveryResponses : UnsubscribeDiscovered(i, resp)
HandshakeSettles == \E i \in Slots, reply \in HubReplies : HandshakeSettled(i, reply)
CallReturned == \E i \in Slots : CallReturns(i)

Next ==
  \/ CallSubscribe
  \/ CallUnsubscribe
  \/ SubscribeResumes
  \/ UnsubscribeResumes
  \/ HandshakeSettles
  \/ CallReturned
  \/ Verification
  \/ Push
  \/ OtherMethod
  \/ Resumes
  \/ HandlerReturns

Spec == Init /\ [][Next]_vars

\* The push verifier alone, over every request shape, the hub sending one
\* push at a time.
OnePush == (\A p \in Suspensions : awaiting[p] = NoCall) /\ AnyPush

NextPush == OnePush \/ Resumes \/ HandlerReturns

SpecPush == Init /\ [][NextPush]_vars

\* Requests in flight together, after subscribe has made every topic
\* Pending once.
InitInflight ==
  /\ publicUrl = "https://subscriber.example/"
  /\ secret \in ProcessSecrets
  /\ pending = Urls
  /\ active = {}
  /\ calls = [i \in Slots |-> Idle(Null)]
  /\ awaiting = [p \in Suspensions |-> NoCall]
  /\ request = NoRequest
  /\ entry = NoEntry
  /\ response = NoResponse
  /\ emitted = <<>>
  /\ inflight = [c \in Conns |-> NoConn]

Receives == \E c \in Conns, req \in InflightRequests : Receive(c, req)
Serves == \E c \in Conns : Serve(c)
ServesOn == \E c \in Conns : ServeResumes(c)

NextInflight == Receives \/ Serves \/ ServesOn

SpecInflight == InitInflight /\ [][NextInflight]_vars

\* The event loop runs the handler for every request that has arrived.
SpecInflightFair ==
  SpecInflight /\ \A c \in Conns : WF_vars(Serve(c)) /\ WF_vars(ServeResumes(c))

\* A process that never calls unsubscribe.
NextSubscribeOnly ==
  \/ CallSubscribe
  \/ SubscribeResumes
  \/ HandshakeSettles
  \/ CallReturned
  \/ Verification
  \/ HandlerReturns

SpecSubscribeOnly == Init /\ [][NextSubscribeOnly]_vars

----------------------------------------------------------------------------
(* Vocabulary of the properties *)

\* While request # NoRequest the state is the one handler(request) ended in:
\* entry holds Pending and Active as the last turn of the call found them
\* (for a GET, which has one turn, as the call found them), pending and
\* active as it left them, response and emitted what the call produced.

\* A step in which a handler call ends; for a GET, the step of the call.
HandlerCalled == request = NoRequest /\ request' # NoRequest

RequiredParams == {"hub", "hub.topic", "hub.mode", "hub.challenge"}

\* A verification GET carrying all four required parameters, none empty.
WellFormed(req) ==
  /\ req.method = "GET"
  /\ \A k \in RequiredParams : Has(req.query, k) /\ req.query[k] # ""

VerificationFor(req, topic, mode) ==
  /\ WellFormed(req)
  /\ req.query["hub.topic"] = topic
  /\ req.query["hub.mode"] = mode

HasLease(req) ==
  Has(req.query, "hub.lease_seconds") /\ req.query["hub.lease_seconds"] # <<>>

NoEffect == pending = entry.pending /\ active = entry.active

AllDigits(s) == s # <<>> /\ \A i \in DOMAIN s : IsDigit(s[i])

\* The value of a decimal numeral, from its last digit.
RECURSIVE DecimalValue(_)
DecimalValue(s) ==
  IF s = <<>> THEN 0
  ELSE 10 * DecimalValue(SubSeq(s, 1, Len(s) - 1)) + DigitValue(s[Len(s)])

\* subscribe(T) marks T Pending in this step.
SubscribeMarks(T) ==
  \E i \in Slots :
    /\ calls[i].pc = "discover" /\ calls[i].mode = "subscribe"
    /\ calls'[i].pc = "post" /\ calls'[i].post.body["hub.topic"] = T

\* An unsubscribe(T) call has sent its handshake, which has not settled yet.
UnsubscribeRequested(T) ==
  \E i \in Slots :
    /\ calls[i].pc = "post" /\ calls[i].mode = "unsubscribe"
    /\ calls[i].post.body["hub.topic"] = T

----------------------------------------------------------------------------
(* C1 *)

C1_FirstVerification(T) ==
  (HandlerCalled /\ VerificationFor(request', T, "subscribe") /\ HasLease(request')
     /\ T \in pending)
  => /\ response' = Respond(OK, request'.query["hub.challenge"])
     /\ T \in active'
     /\ T \notin pending'

C1_OnlySubscribeMarks(T) ==
  (T \notin pending /\ T \in pending') => SubscribeMarks(T)

C1_SecondVerification(T) ==
  (HandlerCalled /\ VerificationFor(request', T, "subscribe") /\ HasLease(request')
     /\ T \notin pending)
  => /\ response' = Respond(NotFound, Null)
     /\ emitted' = <<>>
     /\ UNCHANGED <<pending, active>>

\* C1: for every topic T, the verification GET with hub.mode=subscribe for a
\* Pending T is answered 200 and moves T from Pending to Active; T becomes
\* Pending again only by subscribe(T); and as long as T has not been made
\* Pending again the same GET is answered 404 with no state change and no
\* event.
C1_AtMostOnce ==
  [][\A T \in Urls :
       /\ C1_FirstVerification(T)
       /\ C1_OnlySubscribeMarks(T)
       /\ C1_SecondVerification(T)]_vars

\* The verification GET of a topic it had activated before got 404.
C1_Witness ==
  \E T \in Urls :
    /\ VerificationFor(request, T, "subscribe") /\ HasLease(request)
    /\ response = Respond(NotFound, Null)
    /\ T \in active /\ T \notin pending

----------------------------------------------------------------------------
(* C2 *)

\* C2: a well-formed verification GET whose hub.topic is not Pending is
\* answered 404 whatever its hub.mode, emits no event and leaves Pending and
\* Active unchanged.
C2_UnknownTopicNotFound ==
  (WellFormed(request) /\ request.query["hub.topic"] \notin entry.pending)
  => /\ response = Respond(NotFound, Null)
     /\ emitted = <<>>
     /\ NoEffect

\* An unsubscribe verification for an Active topic that is not Pending got
\* 404 while the other topic was Pending.
C2_Witness ==
  \E T \in Urls :
    /\ VerificationFor(request, T, "unsubscribe")
    /\ response = Respond(NotFound, Null)
    /\ T \in active /\ T \notin entry.pending /\ entry.pending # {}

----------------------------------------------------------------------------
(* C3 *)

\* C3: for a Pending T, the verification GET with hub.mode=subscribe,
\* hub.challenge=C and hub.lease_seconds=L is answered 200 with body C;
\* afterwards T is Active and not Pending; exactly one Subscribe event is
\* emitted, carrying the hub, T and the decimal value of L, and when it is
\* dispatched T is already Active and no longer Pending.
C3_SubscribeVerified ==
  \A T \in Urls :
    (VerificationFor(request, T, "subscribe") /\ HasLease(request)
       /\ T \in entry.pending)
    => /\ response = Respond(OK, request.query["hub.challenge"])
       /\ T \in active /\ T \notin pending
       /\ Len(emitted) = 1
       /\ emitted[1].type = "subscribe"
       /\ emitted[1].hub = request.query["hub"]
       /\ emitted[1].topic = T
       /\ AllDigits(request.query["hub.lease_seconds"])
            => emitted[1].lease = DecimalValue(request.query["hub.lease_seconds"])
       /\ T \in emitted[1].atActive
       /\ T \notin emitted[1].atPending

\* A subscribe verification with lease "60" for a Pending topic was
\* answered 200 with the challenge and its event carries 60.
C3_Witness ==
  \E T \in Urls :
    /\ VerificationFor(request, T, "subscribe")
    /\ T \in entry.pending /\ T \notin entry.active
    /\ response = Respond(OK, "c1")
    /\ Len(emitted) = 1 /\ emitted[1].lease = 60
    /\ T \in active

----------------------------------------------------------------------------
(* C4 *)

\* C4: for an Active T for which unsubscribe(T) has sent its handshake, the
\* hub's verification GET with hub.mode=unsubscribe is answered 200 with the
\* challenge, removes T from Active and emits an Unsubscribe event (hub, T).
C4_UnsubscribeVerified ==
  \A T \in Urls :
    (VerificationFor(request, T, "unsubscribe") /\ T \in entry.active
       /\ UnsubscribeRequested(T))
    => /\ response = Respond(OK, request.query["hub.challenge"])
       /\ T \notin active
       /\ Len(emitted) = 1
       /\ emitted[1].type = "unsubscribe"
       /\ emitted[1].topic = T

----------------------------------------------------------------------------
(* Vocabulary of the push properties *)

\* A push POST with a body and non-empty hub and topic parameters.
WellFormedPush(req) ==
  /\ req.method = "POST"
  /\ Has(req, "body")
  /\ \A k \in {"hub", "topic"} : Has(req.query, k) /\ req.query[k] # ""

SignatureOf(req) ==
  IF Has(req.headers, "x-hub-signature") THEN req.headers["x-hub-signature"] ELSE <<>>

RecognizedNames ==
  {HMAC_ALGORITHM_U[i] : i \in DOMAIN HMAC_ALGORITHM_U}
    \cup {HMAC_ALGORITHM_L[i] : i \in DOMAIN HMAC_ALGORITHM_L}

\* The hash a recognized name stands for.
HashNamed(name) ==
  HMAC_ALGORITHM_U[CHOOSE i \in DOMAIN HMAC_ALGORITHM_U :
                     HMAC_ALGORITHM_U[i] = name \/ HMAC_ALGORITHM_L[i] = name]

FeedEmitted(req, evs) ==
  /\ Len(evs) = 1
  /\ evs[1].type = "feed"
  /\ evs[1].hub = req.query["hub"]
  /\ evs[1].topic = req.query["topic"]
  /\ evs[1].body = req.body

----------------------------------------------------------------------------
(* C5 *)

\* C5: for a push POST with hub, topic, a body and a signature header
\* <recognized algorithm>=<digest>: when the digest is the hex HMAC of the
\* received body under the verification key and the declared algorithm the
\* response is 204 and exactly one Feed event (hub, topic, body) is emitted;
\* when the digest was made with another key, over another body, with
\* another hash or is spelled otherwise, the response is 202, nothing is
\* emitted and the handler does not fail.
C5_SignatureDecides ==
  \A a \in AlgorithmSpellings, k \in Secrets, b \in Bodies, up \in BOOLEAN :
    (/\ WellFormedPush(request)
     /\ a.name \in RecognizedNames
     /\ SignatureOf(request) = HubSignature(a.name, a.hash, k, b, up))
    => IF a.hash = HashNamed(a.name) /\ k = secret /\ b = request.body /\ ~up
       THEN response = Respond(NoContent, Null) /\ FeedEmitted(request, emitted)
       ELSE response = Respond(Accepted, Null) /\ emitted = <<>>

----------------------------------------------------------------------------
(* C6 *)

\* C6: the key that verifies a push depends on the topic parameter: a body
\* signed with the key of topic T1 and delivered with topic=T2, T2 # T1, is
\* answered 202 and emits no Feed event.
C6_KeyPerTopic ==
  \A T1 \in Urls, T2 \in Urls, b \in Bodies, k \in Secrets :
    (/\ T1 # T2
     /\ WellFormedPush(request)
     /\ request.query["topic"] = T2
     /\ request.body = b
     /\ k = verificationKey(sha1, secret, T1).raw
     /\ SignatureOf(request) = HubSignature(sha1, SHA_1, k, b, FALSE))
    => response = Respond(Accepted, Null) /\ emitted = <<>>

----------------------------------------------------------------------------
(* C7 *)

\* C7: the hub.secret of every handshake is the key derived for its topic,
\* not the raw process secret (and is the key the push verifier uses for
\* that topic).
C7_HandshakeSecretDerived ==
  \A i \in Slots :
    calls[i].pc = "post" =>
      /\ calls[i].post.body["hub.secret"] # secret
      /\ calls[i].post.body["hub.secret"] =
           verificationKey(sha1, secret, calls[i].post.body["hub.topic"]).raw

----------------------------------------------------------------------------
(* C8 *)

\* A push call run from the await it is suspended at to its end, with
\* Pending and Active held at pend and act.
RECURSIVE RunPush(_, _, _, _, _)
RunPush(req, at, pend, act, sec) ==
  LET r == handlerPOSTResumes(req, at, pend, act, sec)
  IN IF r.response.outcome = "awaiting"
     THEN RunPush(req, r.response.body, pend, act, sec)
     ELSE r

\* What a push gets from a process that has no Pending and no Active topic.
PushAlone(req, sec) ==
  LET r == handlerPOST(req, {}, {}, sec)
  IN IF r.response.outcome = "awaiting"
     THEN RunPush(req, r.response.body, {}, {}, sec)
     ELSE r

\* A step that is a turn of a push call: the call starts, resumes or ends.
PushTurn ==
  \/ awaiting' # awaiting
  \/ HandlerCalled /\ request'.method = "POST"

\* C8: no turn of a push POST changes Pending or Active, and its outcome
\* does not depend on them: whatever they hold while the call runs, and
\* whether or not its topic is among them, the response is the one the same
\* push gets when both are empty, with a Feed event (hub, topic, body) in
\* the same cases.
C8_PushIgnoresState ==
  /\ [](request.method = "POST"
         => /\ NoEffect
            /\ response = PushAlone(request, secret).response
            /\ Len(emitted) = Len(PushAlone(request, secret).emitted)
            /\ emitted # <<>> => FeedEmitted(request, emitted))
  /\ [][PushTurn => UNCHANGED <<pending, active>>]_vars

\* A push for a topic that is neither Pending nor Active was answered 204
\* while the other topic was Active.
C8_Witness ==
  /\ WellFormedPush(request)
  /\ response = Respond(NoContent, Null)
  /\ FeedEmitted(request, emitted)
  /\ request.query["topic"] \notin pending \cup active
  /\ active # {}

----------------------------------------------------------------------------
(* C9 *)

\* C9: a verification GET in which hub, hub.topic, hub.mode or
\* hub.challenge is absent or empty is answered 400, emits no event and
\* leaves Pending and Active unchanged, also when its topic is Pending.
C9_MissingParamBadRequest ==
  (request.method = "GET" /\ ~WellFormed(request))
  => /\ response = Respond(BadRequest, Null)
     /\ emitted = <<>>
     /\ NoEffect

\* A GET without hub.challenge naming a Pending topic was answered 400 and
\* the topic is still Pending.
C9_Witness ==
  /\ request.method = "GET"
  /\ ~Has(request.query, "hub.challenge")
  /\ Has(request.query, "hub.topic")
  /\ request.query["hub.topic"] \in entry.pending
  /\ request.query["hub.topic"] \in pending
  /\ response = Respond(BadRequest, Null)

----------------------------------------------------------------------------
(* C10 *)

\* C10: for a Pending T, a verification GET with hub.mode=denied emits
\* exactly one Denied event (hub, T), is answered 200 with the challenge,
\* removes T from Pending and leaves Active unchanged.
C10_Denied ==
  \A T \in Urls :
    (VerificationFor(request, T, "denied") /\ T \in entry.pending)
    => /\ response = Respond(OK, request.query["hub.challenge"])
       /\ Len(emitted) = 1
       /\ emitted[1].type = "denied"
       /\ emitted[1].hub = request.query["hub"]
       /\ emitted[1].topic = T
       /\ pending = entry.pending \ {T}
       /\ active = entry.active

\* A denial for a Pending topic that was Active was answered 200 and the
\* topic is still Active.
C10_Witness ==
  \E T \in Urls :
    /\ VerificationFor(request, T, "denied")
    /\ T \in entry.pending /\ T \in entry.active
    /\ response = Respond(OK, "c1")
    /\ Len(emitted) = 1 /\ emitted[1].type = "denied"
    /\ T \in active /\ T \notin pending

----------------------------------------------------------------------------
(* C11 *)

KnownModes == {"denied", "subscribe", "unsubscribe"}

\* C11: for a Pending T, a well-formed verification GET whose hub.mode is
\* none of denied, subscribe, unsubscribe is answered 403, emits no event,
\* leaves Active unchanged and consumes T's Pending entry.
C11_UnknownModeForbidden ==
  \A T \in Urls :
    (/\ WellFormed(request)
     /\ request.query["hub.topic"] = T
     /\ request.query["hub.mode"] \notin KnownModes
     /\ T \in entry.pending)
    => /\ response = Respond(Forbidden, Null)
       /\ emitted = <<>>
       /\ active = entry.active
       /\ pending = entry.pending \ {T}

\* A verification GET with hub.mode=publish for a Pending topic was answered
\* 403 and the topic is no longer Pending.
C11_Witness ==
  \E T \in Urls :
    /\ VerificationFor(request, T, "publish")
    /\ T \in entry.pending
    /\ response = Respond(Forbidden, Null)
    /\ T \notin pending

----------------------------------------------------------------------------
(* C12 *)

\* Call i issues its handshake POST in this step.
PostIssued(i) == calls[i].pc = "discover" /\ calls'[i].pc = "post"

\* The verification GETs a hub sends for a subscription to T.
SubscribeVerifications(T) ==
  {r \in VerificationRequests :
     VerificationFor(r, T, "subscribe") /\ HasLease(r)}

\* C12: when subscribe(T) issues its handshake POST, T is already Pending,
\* and when unsubscribe(T) issues its POST, T is already out of Pending; so
\* a verification GET for T handled while the subscribe POST is in flight
\* is answered 200 with the challenge, not 404.
C12_PendingBeforePost ==
  [][\A i \in Slots :
       PostIssued(i) =>
         LET T == calls'[i].post.body["hub.topic"]
         IN IF calls'[i].mode = "subscribe"
            THEN /\ T \in pending'
                 /\ \A r \in SubscribeVerifications(T) :
                      handler(r, pending', active', secret').response
                        = Respond(OK, r.query["hub.challenge"])
            ELSE T \notin pending']_vars

\* A subscribe verification was answered 200 while the handshake POST of
\* subscribe for that topic had not settled.
C12_Witness ==
  \E T \in Urls, i \in Slots :
    /\ calls[i].pc = "post" /\ calls[i].mode = "subscribe"
    /\ calls[i].post.body["hub.topic"] = T
    /\ VerificationFor(request, T, "subscribe")
    /\ T \in entry.pending
    /\ response = Respond(OK, "c1")

----------------------------------------------------------------------------
(* C13 *)

\* A well-formed verification GET for T is handled in this step.
VerificationHandled(T) ==
  /\ HandlerCalled
  /\ WellFormed(request')
  /\ request'.query["hub.topic"] = T

\* An unsubscribe call resolving to T runs its Pending mutation in this step.
UnsubscribeRuns(T) ==
  \E i \in Slots :
    /\ PostIssued(i)
    /\ calls'[i].mode = "unsubscribe"
    /\ calls'[i].post.body["hub.topic"] = T

\* C13: a Pending topic T leaves Pending only in a step that handles a
\* well-formed verification GET for T or runs an unsubscribe call resolving
\* to T; the settling of a handshake POST, whatever its outcome, and every
\* request or call about another topic leave it Pending.
C13_NoRollback ==
  [][\A T \in Urls :
       (T \in pending /\ T \notin pending')
       => (VerificationHandled(T) \/ UnsubscribeRuns(T))]_vars

\* subscribe has returned to its caller and no request is being handled,
\* yet the topic is still Pending and nothing is Active.
C13_Witness ==
  \E T \in Urls, i \in Slots :
    /\ calls[i].pc = "idle" /\ calls[i].result \in {"resolved", "rejected"}
    /\ request = NoRequest
    /\ T \in pending
    /\ active = {}

----------------------------------------------------------------------------
(* C14 *)

\* The discovery GET returned a non-success status.
NonSuccess(resp) == resp.kind = "response" /\ ~resp.ok

\* Neither the Link header nor the body of the discovery response names a
\* hub.
NoHub(resp) ==
  /\ resp.kind = "response"
  /\ Has(resp.headers, "link") => ~hasParameterRel(resp.headers["link"], "hub")
  /\ ~hasParameterRel(resp.body, "hub")

\* The discovery fetch of call i settles with resp in this step.
DiscoverySettled(i, resp) ==
  SubscribeDiscovered(i, resp) \/ UnsubscribeDiscovered(i, resp)

\* C14: when the discovery GET returns a non-success status or its response
\* names no hub, the subscribe/unsubscribe call rejects to its caller,
\* Pending and Active are unchanged and no handshake POST is issued.
C14_DiscoveryFailure ==
  [][\A i \in Slots, resp \in DiscoveryResponses :
       (DiscoverySettled(i, resp) /\ (NonSuccess(resp) \/ NoHub(resp)))
       => /\ calls'[i].pc = "idle"
          /\ calls'[i].result = "rejected"
          /\ \A j \in Slots : calls'[j].pc = "post" => calls[j] = calls'[j]
          /\ UNCHANGED <<pending, active>>]_vars

\* A call was rejected by a non-success discovery response while a topic
\* was Pending, and it still is.
C14_Witness ==
  \E i \in Slots :
    /\ calls[i].pc = "idle" /\ calls[i].result = "rejected"
    /\ calls[i].error = "failed to discover"
    /\ pending # {}

----------------------------------------------------------------------------
(* C15 *)

\* The target of the first link with the given rel, Null when there is none.
TargetOf(links, rel) ==
  IF \E k \in DOMAIN links : links[k].rel = rel
  THEN links[CHOOSE k \in DOMAIN links :
               /\ links[k].rel = rel
               /\ \A j \in 1..(k - 1) : links[j].rel # rel].uri
  ELSE Null

\* The discovery response succeeded and its Link header has a rel="hub" link.
HeaderNamesHub(resp) ==
  /\ resp.kind = "response" /\ resp.ok
  /\ Has(resp.headers, "link")
  /\ TargetOf(resp.headers["link"], "hub") # Null

Forced(i) == Has(calls[i].options, "force") /\ calls[i].options["force"]

\* C15: when the discovery response carries a Link header with a rel="hub"
\* link, the handshake goes to that link's target, and (without force) its
\* topic is the rel="self" link's target if there is one and the original
\* url otherwise, whatever <link> elements the body holds.
C15_LinkHeaderWins ==
  [][\A i \in Slots, resp \in DiscoveryResponses :
       (DiscoverySettled(i, resp) /\ HeaderNamesHub(resp))
       => LET link == resp.headers["link"]
          IN /\ calls'[i].pc = "post"
             /\ calls'[i].post.url = TargetOf(link, "hub")
             /\ ~Forced(i) =>
                  calls'[i].post.body["hub.topic"] =
                    IF TargetOf(link, "self") # Null
                    THEN TargetOf(link, "self") ELSE calls[i].url]_vars

\* A handshake went to the Link header's hub for the Link header's self
\* target, which differs from the url subscribed to.
C15_Witness ==
  \E i \in Slots :
    /\ calls[i].pc = "post"
    /\ calls[i].post.url = "h1"
    /\ calls[i].post.body["hub.topic"] = "u2"
    /\ calls[i].post.body["hub.callback"].query.topic = "u2"
    /\ "u2" \in pending

----------------------------------------------------------------------------
(* C16 *)

\* The Link header yields no hub but the HTML body has a <link rel="hub">.
BodyNamesHub(resp) ==
  /\ resp.kind = "response" /\ resp.ok
  /\ ~HeaderNamesHub(resp)
  /\ Has(resp.headers, "content-type") /\ resp.headers["content-type"] = "text/html"
  /\ TargetOf(resp.body, "hub") # Null

\* C16: when the Link header is absent or has no rel="hub" link and the
\* content type is HTML, the hub is taken from the body's <link rel="hub">
\* and the topic from its rel="self" link (the original url by default), so
\* the call goes on to its handshake with them.
C16_BodyFallback ==
  [][\A i \in Slots, resp \in DiscoveryResponses :
       (DiscoverySettled(i, resp) /\ BodyNamesHub(resp))
       => /\ calls'[i].pc = "post"
          /\ calls'[i].post.url = TargetOf(resp.body, "hub")
          /\ ~Forced(i) =>
               calls'[i].post.body["hub.topic"] =
                 IF TargetOf(resp.body, "self") # Null
                 THEN TargetOf(resp.body, "self") ELSE calls[i].url]_vars

----------------------------------------------------------------------------
(* C17 *)

\* The topic call i resolves to once the Link header link is discovered.
ResolvedTopic(i, link) ==
  IF Forced(i) THEN calls[i].url
  ELSE IF TargetOf(link, "self") # Null THEN TargetOf(link, "self")
  ELSE calls[i].url

\* C17: whether or not its topic T is Pending or Active, an unsubscribe call
\* whose discovery found a hub issues a handshake POST to that hub with
\* hub.mode=unsubscribe and hub.topic=T and leaves Active unchanged; the
\* call issues no second POST: once the POST settles the call is over.
C17_UnsubscribeAlwaysPosts ==
  [][\A i \in Slots :
       /\ \A resp \in DiscoveryResponses :
            (UnsubscribeDiscovered(i, resp) /\ HeaderNamesHub(resp))
            => /\ calls'[i].pc = "post"
               /\ calls'[i].post.method = "POST"
               /\ calls'[i].post.url = TargetOf(resp.headers["link"], "hub")
               /\ calls'[i].post.body["hub.mode"] = "unsubscribe"
               /\ calls'[i].post.body["hub.topic"] =
                    ResolvedTopic(i, resp.headers["link"])
               /\ active' = active
       /\ (calls[i].pc = "post" /\ calls'[i] # calls[i]) => calls'[i].pc = "idle"]_vars

\* An unsubscribe handshake is in flight for a topic while nothing is
\* Pending or Active.
C17_Witness ==
  \E i \in Slots :
    /\ calls[i].pc = "post" /\ calls[i].mode = "unsubscribe"
    /\ calls[i].post.body["hub.mode"] = "unsubscribe"
    /\ calls[i].post.body["hub.topic"] \in Urls
    /\ pending = {} /\ active = {}

----------------------------------------------------------------------------
(* C18 *)

\* The hub answered the handshake POST with a status other than 202 or 204.
HubDenied(reply) == reply.kind = "response" /\ reply.status \notin {202, 204}

\* C18: when the hub answers the handshake POST with a status other than
\* 202 or 204, the subscribe/unsubscribe call does not complete as if the
\* hub had accepted: it rejects, or a denied event for its topic is emitted.
C18_HubDenialSurfaced ==
  [][\A i \in Slots, reply \in HubReplies :
       (HandshakeSettled(i, reply) /\ HubDenied(reply))
       => \/ calls'[i].result = "rejected"
          \/ \E k \in DOMAIN emitted' :
               /\ emitted'[k].type = "denied"
               /\ emitted'[k].topic = calls[i].post.body["hub.topic"]]_vars

----------------------------------------------------------------------------
(* C19 *)

HandshakeFields ==
  {"hub.verify", "hub.mode", "hub.topic", "hub.secret", "hub.callback"}

\* C19: the form of every handshake POST has hub.verify=async, hub.mode,
\* hub.topic, hub.secret and hub.callback, the callback being the public
\* url with query parameters hub and topic set to the handshake's hub and
\* topic; it has hub.lease_seconds, the decimal numeral of the lease, if and
\* only if the mode is subscribe and a lease was specified, and no other
\* field.
C19_HandshakeForm ==
  [][\A i \in Slots :
       PostIssued(i) =>
         LET post == calls'[i].post
             withLease == calls[i].mode = "subscribe" /\ Has(calls[i].options, "lease")
         IN /\ post.method = "POST"
            /\ DOMAIN post.body =
                 HandshakeFields \cup (IF withLease THEN {"hub.lease_seconds"} ELSE {})
            /\ post.body["hub.verify"] = "async"
            /\ post.body["hub.mode"] = calls[i].mode
            /\ post.body["hub.topic"] \in Urls
            /\ post.body["hub.secret"] \in ProcessSecrets
            /\ post.body["hub.callback"] =
                 [base |-> publicUrl,
                  query |-> [hub |-> post.url, topic |-> post.body["hub.topic"]]]
            /\ withLease =>
                 /\ AllDigits(post.body["hub.lease_seconds"])
                 /\ DecimalValue(post.body["hub.lease_seconds"]) = calls[i].options["lease"]]_vars

\* A subscribe handshake with hub.lease_seconds=60 is in flight.
C19_Witness ==
  \E i \in Slots :
    /\ calls[i].pc = "post" /\ calls[i].mode = "subscribe"
    /\ Has(calls[i].post.body, "hub.lease_seconds")
    /\ calls[i].post.body["hub.lease_seconds"] = <<"6", "0">>
    /\ calls[i].post.body["hub.verify"] = "async"

----------------------------------------------------------------------------
(* C20 *)

\* C20: a call whose discovery found a hub sends its handshake to that hub;
\* with force its topic is the caller's url verbatim, without force the
\* discovered topic; and that one string is the hub.topic field, the
\* callback's topic parameter and the topic added to (subscribe) or removed
\* from (unsubscribe) Pending.
C20_ForceUsesUrl ==
  [][\A i \in Slots, resp \in DiscoveryResponses :
       (DiscoverySettled(i, resp) /\ HeaderNamesHub(resp))
       => LET link == resp.headers["link"]
              discovered == IF TargetOf(link, "self") # Null
                            THEN TargetOf(link, "self") ELSE calls[i].url
              T == IF Forced(i) THEN calls[i].url ELSE discovered
              post == calls'[i].post
          IN /\ calls'[i].pc = "post"
             /\ post.url = TargetOf(link, "hub")
             /\ post.body["hub.callback"].query.hub = TargetOf(link, "hub")
             /\ post.body["hub.topic"] = T
             /\ post.body["hub.callback"].query.topic = T
             /\ pending' = IF calls[i].mode = "subscribe"
                           THEN pending \cup {T} ELSE pending \ {T}]_vars

\* A forced subscribe has its handshake in flight and its topic is the only
\* Pending one.
C20_Witness ==
  \E i \in Slots :
    /\ calls[i].pc = "post" /\ calls[i].mode = "subscribe"
    /\ Has(calls[i].options, "force") /\ calls[i].options["force"]
    /\ pending = {calls[i].post.body["hub.topic"]}
    /\ calls[i].post.body["hub.callback"].query.topic = calls[i].post.body["hub.topic"]

----------------------------------------------------------------------------
(* C21 *)

lowerChar(c) ==
  CASE c = "S" -> "s" [] c = "H" -> "h" [] c = "A" -> "a" [] OTHER -> c

toLowerCase(s) == [i \in DOMAIN s |-> lowerChar(s[i])]

\* name is a letter-case variant of a recognized spelling.
RecognizedIgnoringCase(name) ==
  \E rec \in RecognizedNames : toLowerCase(rec) = toLowerCase(name)

\* The hash that spelling stands for.
HashIgnoringCase(name) ==
  HashNamed(CHOOSE rec \in RecognizedNames : toLowerCase(rec) = toLowerCase(name))

\* C21: a push whose signature declares any letter-case variant of a
\* recognized algorithm spelling, with the digest made under the hash it
\* stands for and the verification key over the received body, is answered
\* 204 and fed; a push declaring an unrecognized algorithm is never
\* answered 204 and emits no Feed event.
C21_AlgorithmIgnoresCase ==
  \A a \in AlgorithmSpellings, k \in Secrets :
    (/\ WellFormedPush(request)
     /\ k = secret
     /\ SignatureOf(request) = HubSignature(a.name, a.hash, k, request.body, FALSE))
    => IF RecognizedIgnoringCase(a.name)
       THEN a.hash = HashIgnoringCase(a.name)
              => /\ response = Respond(NoContent, Null)
                 /\ FeedEmitted(request, emitted)
       ELSE response # Respond(NoContent, Null) /\ emitted = <<>>

----------------------------------------------------------------------------
(* C22 *)

\* C22: a push whose digest is the correct HMAC (recognized algorithm,
\* verification key, received body) verifies whether its hex is written in
\* lower case or in upper case: the response is 204 and a Feed event is
\* emitted.
C22_DigestIgnoresCase ==
  \A a \in AlgorithmSpellings, up \in BOOLEAN, k \in Secrets :
    (/\ WellFormedPush(request)
     /\ a.name \in RecognizedNames
     /\ a.hash = HashNamed(a.name)
     /\ k = secret
     /\ SignatureOf(request) = HubSignature(a.name, a.hash, k, request.body, up))
    => /\ response = Respond(NoContent, Null)
       /\ FeedEmitted(request, emitted)

----------------------------------------------------------------------------
(* C23 *)

\* The positions of "=" in a header value.
EqualsAt(s) == {i \in DOMAIN s : s[i] = "="}

Least(S) == CHOOSE i \in S : \A j \in S : i <= j

\* The halves of a header value split on "=": what precedes the first "=",
\* and what lies between it and the next "=" or the end.
AlgorithmHalf(s) ==
  IF EqualsAt(s) = {} THEN s ELSE SubSeq(s, 1, Least(EqualsAt(s)) - 1)

DigestHalf(s) ==
  IF EqualsAt(s) = {} THEN <<>>
  ELSE LET e == Least(EqualsAt(s))
           later == {i \in EqualsAt(s) : i > e}
       IN SubSeq(s, e + 1, IF later = {} THEN Len(s) ELSE Least(later) - 1)

\* A push lacking its body, hub, topic or signature header.
IncompletePush(req) ==
  /\ req.method = "POST"
  /\ ~WellFormedPush(req) \/ SignatureOf(req) = <<>>

\* A complete push whose signature lacks its algorithm or its digest half.
HalfSignedPush(req) ==
  /\ WellFormedPush(req)
  /\ SignatureOf(req) # <<>>
  /\ AlgorithmHalf(SignatureOf(req)) = <<>> \/ DigestHalf(SignatureOf(req)) = <<>>

\* C23: a POST with no body, or without hub or topic, or without
\* X-Hub-Signature is answered 400 or 403; a POST whose signature has an
\* empty algorithm or digest half is answered 403; none of them emits an
\* event, makes the handler fail or changes Pending or Active.
C23_MalformedPushRejected ==
  /\ IncompletePush(request)
       => /\ response \in {Respond(BadRequest, Null), Respond(Forbidden, Null)}
          /\ emitted = <<>>
          /\ NoEffect
  /\ HalfSignedPush(request)
       => /\ response = Respond(Forbidden, Null)
          /\ emitted = <<>>
          /\ NoEffect

\* A push with hub, topic and body whose signature is "sha1=" was answered
\* 403.
C23_Witness ==
  /\ WellFormedPush(request)
  /\ SignatureOf(request) = sha1 \o <<"=">>
  /\ response = Respond(Forbidden, Null)

----------------------------------------------------------------------------
(* C24 *)

\* C24: whatever the request, handler() returns a response to its caller:
\* it never throws or rejects; a fault inside it shows as an HTTP error
\* status or as an error event.
C24_NoFaultEscapes ==
  request # NoRequest => response.outcome = "response"

----------------------------------------------------------------------------
(* C25 *)

\* C25: a request whose method is neither GET nor POST is answered 405,
\* emits no event and leaves Pending and Active unchanged, whatever its
\* query parameters, headers or body.
C25_OtherMethodNotAllowed ==
  (request # NoRequest /\ request.method \notin {"GET", "POST"})
  => /\ response = Respond(MethodNotAllowed, Null)
     /\ emitted = <<>>
     /\ NoEffect

\* A PUT carrying a complete subscribe verification for a Pending topic was
\* answered 405 and the topic is still Pending.
C25_Witness ==
  /\ request.method = "PUT"
  /\ Has(request.query, "hub.topic")
  /\ request.query["hub.topic"] \in entry.pending
  /\ request.query["hub.topic"] \in pending
  /\ response = Respond(MethodNotAllowed, Null)

----------------------------------------------------------------------------
(* C26 *)

\* The connections whose request, a well-formed verification GET for T, has
\* been answered.
AnsweredFor(T) ==
  {c \in Conns :
     /\ inflight[c].state = "answered"
     /\ WellFormed(inflight[c].req)
     /\ inflight[c].req.query["hub.topic"] = T}

\* A verification GET the handler can accept: a known mode, and a lease
\* when the mode is subscribe.
Complete(req) ==
  /\ WellFormed(req)
  /\ req.query["hub.mode"] \in KnownModes
  /\ req.query["hub.mode"] = "subscribe" => HasLease(req)

RECURSIVE EventsOf(_)
EventsOf(S) ==
  IF S = {} THEN 0
  ELSE LET c == CHOOSE x \in S : TRUE
       IN Len(inflight[c].emitted) + EventsOf(S \ {c})

\* C26: T having been made Pending once, when the verification GETs for T
\* that were in flight together have been answered, in whatever order the
\* handler took them, exactly one of them was answered 200 with its
\* challenge, every other one 404, and one event in all was emitted for T.
C26_OneConsumer ==
  \A T \in Urls :
    LET S == AnsweredFor(T)
    IN (S # {} /\ \A c \in S : Complete(inflight[c].req))
       => /\ Cardinality({c \in S : inflight[c].response =
                            Respond(OK, inflight[c].req.query["hub.challenge"])}) = 1
          /\ \A c \in S :
               \/ inflight[c].response =
                    Respond(OK, inflight[c].req.query["hub.challenge"])
               \/ inflight[c].response = Respond(NotFound, Null)
          /\ EventsOf(S) = 1

\* Two verification GETs for one topic both arrived while it was Pending;
\* one was answered 200 and the other 404.
C26_Witness ==
  \E T \in Urls, c1 \in Conns, c2 \in Conns :
    /\ c1 # c2
    /\ {c1, c2} \subseteq AnsweredFor(T)
    /\ T \in inflight[c1].atArrival /\ T \in inflight[c2].atArrival
    /\ inflight[c1].response = Respond(OK, "c1")
    /\ inflight[c2].response = Respond(NotFound, Null)

----------------------------------------------------------------------------
(* C27 *)

\* C27: every event a verification GET or a push POST produces is
\* dispatched with the state mutation finalized and after the response has
\* been returned.
C27_EmitAfterResponse ==
  \A k \in DOMAIN emitted :
    /\ emitted[k].atPending = pending
    /\ emitted[k].atActive = active
    /\ emitted[k].returned

----------------------------------------------------------------------------
(* C28 *)

\* C28: for a Pending T, a subscribe verification GET without
\* hub.lease_seconds (absent or empty) is an error: T is not added to
\* Active, no event is emitted and no 200 is returned; T's Pending entry is
\* consumed all the same, so a complete verification GET for T handled next
\* is answered 404.
C28_LeaseRequired ==
  \A T \in Urls :
    (VerificationFor(request, T, "subscribe") /\ ~HasLease(request)
       /\ T \in entry.pending)
    => /\ active = entry.active
       /\ emitted = <<>>
       /\ response.status # OK
       /\ response.outcome # "response" \/ response.status >= BadRequest
       /\ pending = entry.pending \ {T}
       /\ \A r \in SubscribeVerifications(T) :
            handler(r, pending, active, secret).response = Respond(NotFound, Null)

\* A subscribe verification with an empty hub.lease_seconds for a Pending
\* topic that was not Active failed, and the topic is neither Pending nor
\* Active.
C28_Witness ==
  \E T \in Urls :
    /\ VerificationFor(request, T, "subscribe")
    /\ Has(request.query, "hub.lease_seconds")
    /\ request.query["hub.lease_seconds"] = <<>>
    /\ T \in entry.pending /\ T \notin entry.active
    /\ response = Reject("lease not specified")
    /\ T \notin pending /\ T \notin active

----------------------------------------------------------------------------
(* C29 *)

\* C29: every request that has reached the server eventually has its one
\* completed HTTP response, on every path through the handler, the paths
\* on which an exception is raised included.
C29_AlwaysAnswered ==
  \A c \in Conns :
    (inflight[c].state = "arrived")
      ~> (inflight[c].state = "answered"
            /\ inflight[c].response.outcome = "response")

----------------------------------------------------------------------------
(* C30 *)

\* C30: a topic T enters Active only in a step that handles a verification
\* GET with hub.mode=subscribe for T, finds T Pending and consumes that
\* Pending entry; and T enters Pending only by a subscribe() call.  No other
\* step (subscribe, unsubscribe, a denied or unknown-mode GET, a push POST)
\* adds to Active.
C30_ActiveIsEarned ==
  [][\A T \in Urls :
       /\ (T \notin active /\ T \in active')
            => /\ HandlerCalled
               /\ VerificationFor(request', T, "subscribe")
               /\ T \in pending
               /\ T \notin pending'
       /\ (T \notin pending /\ T \in pending') => SubscribeMarks(T)]_vars

\* A topic that subscribe had made Pending became Active by its subscribe
\* verification while a subscribe handshake for it was in flight.
C30_Witness ==
  \E T \in Urls, i \in Slots :
    /\ calls[i].pc = "post" /\ calls[i].mode = "subscribe"
    /\ calls[i].post.body["hub.topic"] = T
    /\ VerificationFor(request, T, "subscribe")
    /\ T \in entry.pending /\ T \notin entry.active
    /\ T \in active /\ T \notin pending

----------------------------------------------------------------------------
(* C31 *)

\* C31: a topic is removed from Active and an Unsubscribe event is emitted
\* only when the process called unsubscribe for that topic before; so in a
\* process that never calls unsubscribe, where every Pending entry was
\* created by subscribe, no verification GET removes a topic from Active
\* or emits an Unsubscribe event.
C31_ModeMatchesCall ==
  request # NoRequest
  => /\ entry.active \subseteq active
     /\ \A k \in DOMAIN emitted : emitted[k].type # "unsubscribe"

----------------------------------------------------------------------------
(* C32 *)

\* C32: in every reachable state no topic is in the Pending set and in the
\* Active set at the same time.
C32_SingleState ==
  pending \cap active = {}

=============================================================================
